---- MODULE Spec2Model ----
(***************************************************************************)
(* createExperimentLogic (kea logic of the experiment-creation form) and   *)
(* its helper generateFeatureFlagKey; llmEvaluationsLogic and              *)
(* llmEvaluationLogic (the evaluations prototype and its mock store).      *)
(*                                                                         *)
(* Text is a sequence of one-character strings, so that lowercasing, the   *)
(* regular-expression replacements, trimming and template strings are      *)
(* computed character by character, as the code computes them.             *)
(***************************************************************************)
EXTENDS Integers, Sequences, FiniteSets, TLC

VARIABLES
    \* ---- generateFeatureFlagKey, run on its own (lines 651-666)
    gName,              \* the argument `name`
    gUnavailableKeys,   \* the argument `unavailableKeys`
    gKey,               \* the local `key`
    gCounter,           \* the local `counter`
    gPc,                \* "loop" while in the while loop, "done" once returned
    \* ---- createExperimentLogic: kea-forms state (lines 739-768)
    experimentForm,             \* [name, feature_flag_key, feature_flag_variants]
    experimentFormTouched,      \* the fields touched by touchExperimentFormField
    \* ---- createExperimentLogic: reducers (lines 712-738)
    featureFlagMode,
    selectedFeatureFlag,
    featureFlagKeyValidationError,
    \* ---- createExperimentLogic: loaders (lines 769-811)
    existingFeatureFlags,
    existingFeatureFlagsLoading,
    featureFlagValidation,
    featureFlagValidationLoading,
    \* ---- asynchronous work in flight
    loadPending,                \* loadExistingFeatureFlags calls not yet answered
    validatePending,            \* validateFeatureFlagKey lookups not yet answered
    debounceTimer,              \* the pending call of the debounced listener
    createPending,              \* api.create calls not yet answered
    \* ---- collaborators
    toast,                      \* the last lemonToast shown
    location,                   \* where router.actions.push last went
    \* ---- history, read by the properties only
    last,                       \* the handler that ran last, with its argument
    latestCheck,                \* the most recently issued validateFeatureFlagKey
    \* ---- the evaluations prototype: the heap shared by its two logics
    mockEvaluations,            \* window.mockEvaluations: an array, or undefined
    nextRef,                    \* the identity the next new array or object gets
    clock,                      \* Date.now()
    \* ---- llmEvaluationsLogic (LLMAnalyticsEvaluations.tsx lines 253-427)
    evaluations,                \* the array held by the reducer
    evaluationsLoading,
    evaluationsLoadTimer,       \* loadEvaluations calls waiting for their setTimeout
    \* ---- llmEvaluationLogic (llmEvaluationLogic.ts lines 58-274)
    evaluationId,               \* props.evaluationId, once the logic is mounted
    evaluation,
    evaluationRuns,
    evaluationLoading,
    evaluationFormSubmitting,
    runsLoading,
    hasUnsavedChanges,
    saveTimers                  \* saveEvaluation calls waiting for their setTimeout

genVars == <<gName, gUnavailableKeys, gKey, gCounter, gPc>>

formVars == <<experimentForm, experimentFormTouched, featureFlagMode, selectedFeatureFlag>>

validationVars ==
    <<featureFlagKeyValidationError, featureFlagValidation, featureFlagValidationLoading,
      validatePending, debounceTimer, latestCheck>>

flagsVars == <<existingFeatureFlags, existingFeatureFlagsLoading, loadPending>>

submitVars == <<createPending, location>>

logicVars == <<formVars, validationVars, flagsVars, submitVars, toast, last>>

heapVars == <<mockEvaluations, nextRef, clock>>

listVars == <<evaluations, evaluationsLoading, evaluationsLoadTimer>>

detailVars ==
    <<evaluationId, evaluation, evaluationRuns, evaluationLoading, evaluationFormSubmitting,
      runsLoading, hasUnsavedChanges, saveTimers>>

evalVars == <<heapVars, listVars, detailVars>>

\* createExperimentLogic and generateFeatureFlagKey, but for the history
experimentVars == <<genVars, formVars, validationVars, flagsVars, submitVars, toast>>

vars == <<genVars, logicVars, evalVars>>

(***************************************************************************)
(* Text helpers                                                            *)
(***************************************************************************)
UpperChars == <<"A","B","C","D","E","F","G","H","I","J","K","L","M",
                "N","O","P","Q","R","S","T","U","V","W","X","Y","Z">>
LowerChars == <<"a","b","c","d","e","f","g","h","i","j","k","l","m",
                "n","o","p","q","r","s","t","u","v","w","x","y","z">>
DigitChars == <<"0","1","2","3","4","5","6","7","8","9">>

Range(s) == {s[i] : i \in 1..Len(s)}

\* String.prototype.toLowerCase, one character
toLowerCaseChar(c) ==
    IF \E i \in 1..Len(UpperChars) : UpperChars[i] = c
    THEN LowerChars[CHOOSE i \in 1..Len(UpperChars) : UpperChars[i] = c]
    ELSE c

\* String.prototype.toLowerCase
toLowerCase(s) == [i \in 1..Len(s) |-> toLowerCaseChar(s[i])]

\* the character class [A-Za-z0-9-_]
InKeyClass(c) ==
    c \in Range(UpperChars) \cup Range(LowerChars) \cup Range(DigitChars) \cup {"-", "_"}

\* the rest of s after its longest prefix of characters outside the class
RECURSIVE SkipDisallowed(_)
SkipDisallowed(s) ==
    IF s # <<>> /\ ~InKeyClass(Head(s)) THEN SkipDisallowed(Tail(s)) ELSE s

\* the replacement without the `+` of the pattern: every character on its own
replaceEachDisallowed(s) == [i \in 1..Len(s) |-> IF InKeyClass(s[i]) THEN s[i] ELSE "-"]

\* .replace(/[^A-Za-z0-9-_]+/g, '-')
RECURSIVE replaceDisallowedRuns(_)
replaceDisallowedRuns(s) ==
    IF s = <<>> THEN <<>>
    ELSE IF InKeyClass(Head(s)) THEN <<Head(s)>> \o replaceDisallowedRuns(Tail(s))
    ELSE <<"-">> \o replaceDisallowedRuns(SkipDisallowed(s))

\* .replace(/-+$/, '')
RECURSIVE stripTrailingHyphens(_)
stripTrailingHyphens(s) ==
    IF s # <<>> /\ s[Len(s)] = "-" THEN stripTrailingHyphens(SubSeq(s, 1, Len(s) - 1)) ELSE s

\* .replace(/^-+/, '')
RECURSIVE stripLeadingHyphens(_)
stripLeadingHyphens(s) ==
    IF s # <<>> /\ Head(s) = "-" THEN stripLeadingHyphens(Tail(s)) ELSE s

\* `${counter}` : the decimal digits of a natural number
RECURSIVE numberToString(_)
numberToString(n) ==
    IF n < 10 THEN <<DigitChars[n + 1]>>
    ELSE numberToString(n \div 10) \o <<DigitChars[(n % 10) + 1]>>

(***************************************************************************)
(* generateFeatureFlagKey                                                  *)
(***************************************************************************)
\* const baseKey = name.toLowerCase().replace(...).replace(...).replace(...)
baseKeyOf(name) ==
    stripLeadingHyphens(stripTrailingHyphens(replaceDisallowedRuns(toLowerCase(name))))

\* the same condition read once, as an `if` in place of the `while`
loopConditionOnce(key, counter, unavailableKeys) == key \in unavailableKeys /\ counter = 1

\* the condition of `while (unavailableKeys.has(key))`
loopCondition(key, counter, unavailableKeys) == key \in unavailableKeys

\* the candidate numbered one too far: counter + 1 in place of counter
candidateKeyFromTwo(baseKey, counter) == baseKey \o <<"-">> \o numberToString(counter + 1)

\* key = `${baseKey}-${counter}`
candidateKey(baseKey, counter) == baseKey \o <<"-">> \o numberToString(counter)

\* the while loop, from the state (key, counter), to the value returned
RECURSIVE keyLoop(_, _, _, _)
keyLoop(baseKey, key, counter, unavailableKeys) ==
    IF loopCondition(key, counter, unavailableKeys)
    THEN keyLoop(baseKey, candidateKey(baseKey, counter), counter + 1, unavailableKeys)
    ELSE key

\* the whole function, as its callers use it
generateFeatureFlagKey(name, unavailableKeys) ==
    keyLoop(baseKeyOf(name), baseKeyOf(name), 1, unavailableKeys)

(***************************************************************************)
(* createExperimentLogic: values                                           *)
(***************************************************************************)
\* null, where the other values are records; and where they are strings
Null == [null |-> TRUE]
NullText == "null"

\* a property that is absent from an object (the seeded variants have no name)
Undefined == <<"undefined">>

ControlKey == <<"c","o","n","t","r","o","l">>
TestKey == <<"t","e","s","t">>
VariantPrefix == <<"v","a","r","i","a","n","t","-">>

\* NEW_EXPERIMENT, the defaults of experimentForm: the fields the listeners read
NEW_EXPERIMENT ==
    [ name |-> <<>>,
      description |-> <<>>,
      feature_flag_key |-> <<>>,
      feature_flag_variants |->
        << [key |-> ControlKey, name |-> Undefined, rollout_percentage |-> 50],
           [key |-> TestKey, name |-> Undefined, rollout_percentage |-> 50] >> ]

\* the messages of the listeners and loaders
MsgKeyRequired == "Feature flag key is required"
MsgKeyInUse == "This feature flag key is already in use"
MsgKeyError == "Error validating feature flag key"
MsgSelectFlag == "Please select an existing feature flag"
MsgMinVariants == "Experiments must have at least 2 variants"
MsgSaved == "Experiment saved as draft"
MsgCreateFailed == "Failed to create experiment"
MsgNameMissing == "Please enter a name"
MsgKeyMissing == "Please enter a feature flag key"
NoToast == "none"

WhitespaceChars == {" "}

\* String.prototype.trim
RECURSIVE trimStart(_)
trimStart(s) == IF s # <<>> /\ Head(s) \in WhitespaceChars THEN trimStart(Tail(s)) ELSE s

RECURSIVE trimEnd(_)
trimEnd(s) ==
    IF s # <<>> /\ s[Len(s)] \in WhitespaceChars THEN trimEnd(SubSeq(s, 1, Len(s) - 1)) ELSE s

trim(s) == trimEnd(trimStart(s))

\* !value?.trim()
IsBlank(s) == trim(s) = <<>>

\* the filter with the index counted from 1
filterOutIndexFromOne(list, index) ==
    [i \in 1..(IF index \in 1..Len(list) THEN Len(list) - 1 ELSE Len(list)) |->
        IF index \in 1..Len(list) /\ i >= index THEN list[i + 1] ELSE list[i]]

\* Array.prototype.filter((_, i) => i !== index), index counted from 0
RECURSIVE filterOutIndex(_, _)
filterOutIndex(list, index) ==
    IF list = <<>> THEN <<>>
    ELSE IF index = 0 THEN filterOutIndex(Tail(list), index - 1)
    ELSE <<Head(list)>> \o filterOutIndex(Tail(list), index - 1)

(***************************************************************************)
(* createExperimentLogic: selectors                                        *)
(***************************************************************************)
\* selectors.variants
variants == experimentForm.feature_flag_variants

\* variants.reduce((sum, variant) => sum + (variant.rollout_percentage || 0), 0)
RECURSIVE sumOfRollout(_)
sumOfRollout(list) ==
    IF list = <<>> THEN 0 ELSE Head(list).rollout_percentage + sumOfRollout(Tail(list))

\* selectors.variantPercentageSum
variantPercentageSum == sumOfRollout(variants)

\* forms.experimentForm.errors
experimentFormErrors ==
    [ name |-> IF IsBlank(experimentForm.name) THEN MsgNameMissing ELSE "false",
      feature_flag_key |->
          IF IsBlank(experimentForm.feature_flag_key) THEN MsgKeyMissing ELSE "false" ]

\* the test with every value truthy in place of some value
hasFormErrorsInAll(errors) == \A f \in DOMAIN errors : errors[f] # "false"

\* hasFormErrors(values.experimentFormErrors): some value of the object is truthy
hasFormErrors(errors) == \E f \in DOMAIN errors : errors[f] # "false"

(***************************************************************************)
(* createExperimentLogic: the variant listeners                            *)
(***************************************************************************)
\* the rounding error added to the last variant instead of subtracted from it
adjustedPercentageAdded(index, numVariants) ==
    LET percentageRounded == (200 + numVariants) \div (2 * numVariants)
        delta == percentageRounded * numVariants - 100
    IN  IF index = numVariants - 1 THEN percentageRounded + delta ELSE percentageRounded

\* Math.round(100 / numVariants) is the integer nearest to 100/numVariants, a half
\* rounded up: floor(100/numVariants + 1/2) = (200 + numVariants) div (2 numVariants)
adjustedPercentage(index, numVariants) ==
    LET percentageRounded == (200 + numVariants) \div (2 * numVariants)
        totalRounded == percentageRounded * numVariants
        delta == totalRounded - 100
    IN  IF index = numVariants - 1 THEN percentageRounded - delta ELSE percentageRounded

\* the map with the rounding error put on the first variant in place of the last
updatedVariantsErrorFirst(list) ==
    [i \in 1..Len(list) |->
        [list[i] EXCEPT !.rollout_percentage =
            adjustedPercentage((IF i = 1 THEN Len(list) ELSE i - 1) - 1, Len(list))]]

\* variants.map((variant, index) => ({ ...variant, rollout_percentage: ... }))
updatedVariants(list) ==
    [i \in 1..Len(list) |->
        [list[i] EXCEPT !.rollout_percentage = adjustedPercentage(i - 1, Len(list))]]

\* the guard of removeVariant with < in place of <=
tooFewToRemoveStrict(list) == Len(list) < 2

\* if (variants.length <= 2)
tooFewToRemove(list) == Len(list) <= 2

\* the new variant numbered by the length, not the length plus one
newVariantNumberedByLength(list) ==
    [ key |-> VariantPrefix \o numberToString(Len(list)),
      name |-> <<>>,
      rollout_percentage |-> 0 ]

\* the new variant of addVariant
newVariant(list) ==
    [ key |-> VariantPrefix \o numberToString(Len(list) + 1),
      name |-> <<>>,
      rollout_percentage |-> 0 ]

\* what the variant listeners leave alone
notVariantVars ==
    <<experimentFormTouched, featureFlagMode, selectedFeatureFlag, validationVars,
      flagsVars, submitVars>>

\* listeners.addVariant; its setExperimentFormValue('parameters', ...) does not
\* meet the condition of the setExperimentFormValue listener (name === 'name')
addVariant ==
    /\ location = <<"create">>
    /\ experimentForm' =
           [experimentForm EXCEPT !.feature_flag_variants = Append(variants, newVariant(variants))]
    /\ last' = [op |-> "addVariant"]
    /\ UNCHANGED <<notVariantVars, toast, genVars, evalVars>>

\* listeners.removeVariant
removeVariant(index) ==
    /\ location = <<"create">>
    /\ IF tooFewToRemove(variants)
       THEN /\ toast' = MsgMinVariants
            /\ UNCHANGED experimentForm
       ELSE /\ experimentForm' =
                   [experimentForm EXCEPT
                       !.feature_flag_variants = filterOutIndex(variants, index)]
            /\ UNCHANGED toast
    /\ last' = [op |-> "removeVariant", index |-> index,
                 rejected |-> tooFewToRemove(variants)]
    /\ UNCHANGED <<notVariantVars, genVars, evalVars>>

\* minVariants={2}, the prop CreateExperiment gives FeatureFlagVariantsList
minVariants == 2

\* FeatureFlagVariantsList.handleRemoveVariant with onRemoveVariant={removeVariant}:
\* at or under the minimum it does nothing at all
handleRemoveVariant(index) ==
    /\ Len(variants) > minVariants
    /\ removeVariant(index)

\* listeners.distributeVariantsEqually
distributeVariantsEqually ==
    /\ location = <<"create">>
    /\ IF Len(variants) = 0
       THEN UNCHANGED experimentForm
       ELSE experimentForm' =
                [experimentForm EXCEPT !.feature_flag_variants = updatedVariants(variants)]
    /\ last' = [op |-> "distributeVariantsEqually"]
    /\ UNCHANGED <<notVariantVars, toast, genVars, evalVars>>

\* the rollout input of a variant row: onChange(parseInt(...) || 0), which kea-forms
\* turns into setExperimentFormValue([..., index, 'rollout_percentage'], numVal)
setVariantRollout(index, numVal) ==
    /\ location = <<"create">>
    /\ index < Len(variants)
    /\ experimentForm' =
           [experimentForm EXCEPT !.feature_flag_variants[index + 1].rollout_percentage = numVal]
    /\ last' = [op |-> "setVariantRollout", index |-> index]
    /\ UNCHANGED <<notVariantVars, toast, genVars, evalVars>>

(***************************************************************************)
(* createExperimentLogic: the featureFlagValidation loader and the         *)
(* featureFlagKeyValidationError reducer                                   *)
(*                                                                         *)
(* kea-loaders gives the loader validateFeatureFlagKey the actions         *)
(* validateFeatureFlagKeySuccess and validateFeatureFlagKeyFailure and,    *)
(* when the promise of the loader function resolves, dispatches            *)
(* validateFeatureFlagKeySuccess(<the value returned>, payload) itself.    *)
(* The continuation of the function after its await and that dispatch run  *)
(* in consecutive microtasks: no other event is handled between them.      *)
(***************************************************************************)
ActionValidate == [type |-> "validateFeatureFlagKey"]
ActionSuccess(value) == [type |-> "validateFeatureFlagKeySuccess", featureFlagValidation |-> value]
ActionFailure(error) == [type |-> "validateFeatureFlagKeyFailure", error |-> error]

\* reducers.featureFlagKeyValidationError
reduceValidationError(state, action) ==
    IF action.type = "validateFeatureFlagKeySuccess" THEN NullText
    ELSE IF action.type = "validateFeatureFlagKeyFailure" THEN action.error
    ELSE state

\* the reducer kea-loaders makes for featureFlagValidation
reduceValidation(state, action) ==
    IF action.type = "validateFeatureFlagKeySuccess" THEN action.featureFlagValidation
    ELSE state

\* the reducer kea-loaders makes for featureFlagValidationLoading
reduceValidationLoading(state, action) ==
    IF action.type = "validateFeatureFlagKey" THEN TRUE ELSE FALSE

validationState ==
    [ error |-> featureFlagKeyValidationError,
      value |-> featureFlagValidation,
      loading |-> featureFlagValidationLoading ]

reduceAll(state, action) ==
    [ error |-> reduceValidationError(state.error, action),
      value |-> reduceValidation(state.value, action),
      loading |-> reduceValidationLoading(state.loading, action) ]

RECURSIVE dispatchAll(_, _)
dispatchAll(state, dispatched) ==
    IF dispatched = <<>> THEN state
    ELSE dispatchAll(reduceAll(state, Head(dispatched)), Tail(dispatched))

\* if (!key?.trim()) { actions.validateFeatureFlagKeyFailure(...); return null }
blankKeyDispatches == << ActionFailure(MsgKeyRequired), ActionSuccess(Null) >>

\* the same with any returned flag counted as a match, in place of flag.key === key
responseDispatchesAnyResult(key, response) ==
    IF ~response.ok
    THEN << ActionFailure(MsgKeyError), ActionSuccess(Null) >>
    ELSE IF response.results # {}
    THEN << ActionFailure(MsgKeyInUse), ActionSuccess([available |-> FALSE]) >>
    ELSE << ActionSuccess([available |-> TRUE]), ActionSuccess([available |-> TRUE]) >>

\* the loader function after `await api.get(...)`, then the dispatch of kea-loaders:
\* response.ok is FALSE when api.get threw; response.results are the keys returned
responseDispatches(key, response) ==
    IF ~response.ok
    THEN << ActionFailure(MsgKeyError), ActionSuccess(Null) >>
    ELSE IF \E flagKey \in response.results : flagKey = key
    THEN << ActionFailure(MsgKeyInUse), ActionSuccess([available |-> FALSE]) >>
    ELSE << ActionSuccess([available |-> TRUE]), ActionSuccess([available |-> TRUE]) >>

\* what the lookup found, for the history
outcomeOf(key, response) ==
    IF ~response.ok THEN "error"
    ELSE IF key \in response.results THEN "taken"
    ELSE "available"

(***************************************************************************)
(* The flag registry behind api.get(.../feature_flags/?search=...)         *)
(***************************************************************************)
\* the flags of the project
RegistryFlags ==
    << [id |-> 1, key |-> <<"a">>], [id |-> 2, key |-> <<"a","b","c">>] >>

RegistryKeys == {RegistryFlags[i].key : i \in 1..Len(RegistryFlags)}

IsSubstring(part, whole) ==
    \E from \in 1..(Len(whole) + 1) :
        /\ from + Len(part) - 1 <= Len(whole)
        /\ SubSeq(whole, from, from + Len(part) - 1) = part

\* ?search=key : the flags whose key contains the searched text
RegistrySearch(key) == {flagKey \in RegistryKeys : IsSubstring(key, flagKey)}

\* the answers api.get can give to the lookup of key
LookupResponses(key) == { [ok |-> FALSE], [ok |-> TRUE, results |-> RegistrySearch(key)] }

(***************************************************************************)
(* createExperimentLogic: validation, key generation, modes                *)
(***************************************************************************)
NoCheck ==
    [key |-> <<>>, status |-> "none", outcome |-> "none", error |-> NullText, validation |-> Null]

superseded(pending) == {[key |-> call.key, latest |-> FALSE] : call \in pending}

\* actions.validateFeatureFlagKey(key): the reducers, then the loader function up
\* to its await (or to its return, for a blank key)
validateFeatureFlagKey(key) ==
    LET started == reduceAll(validationState, ActionValidate)
        now == IF IsBlank(key) THEN dispatchAll(started, blankKeyDispatches) ELSE started
    IN  /\ featureFlagKeyValidationError' = now.error
        /\ featureFlagValidation' = now.value
        /\ featureFlagValidationLoading' = now.loading
        /\ validatePending' =
               IF IsBlank(key) THEN superseded(validatePending)
               ELSE superseded(validatePending) \cup {[key |-> key, latest |-> TRUE]}
        /\ latestCheck' =
               IF IsBlank(key)
               THEN [key |-> key, status |-> "done", outcome |-> "required",
                     error |-> now.error, validation |-> now.value]
               ELSE [key |-> key, status |-> "pending", outcome |-> "none",
                     error |-> NullText, validation |-> Null]

notValidating ==
    UNCHANGED <<featureFlagKeyValidationError, featureFlagValidation,
                featureFlagValidationLoading, validatePending, latestCheck>>

\* the answer to a lookup arrives
validateFeatureFlagKeyResponse(call, response) ==
    LET now == dispatchAll(validationState, responseDispatches(call.key, response))
    IN  /\ call \in validatePending
        /\ response \in LookupResponses(call.key)
        /\ featureFlagKeyValidationError' = now.error
        /\ featureFlagValidation' = now.value
        /\ featureFlagValidationLoading' = now.loading
        /\ validatePending' = validatePending \ {call}
        /\ latestCheck' =
               IF call.latest
               THEN [key |-> call.key, status |-> "done",
                     outcome |-> outcomeOf(call.key, response),
                     error |-> now.error, validation |-> now.value]
               ELSE latestCheck
        /\ last' = [op |-> "validateFeatureFlagKeyResponse", key |-> call.key,
                     latest |-> call.latest]
        /\ UNCHANGED <<formVars, debounceTimer, flagsVars, submitVars, toast, genVars, evalVars>>

\* new Set(values.existingFeatureFlags.map(flag => flag.key))
unavailableKeysOf(flags) == {flags[i].key : i \in 1..Len(flags)}

\* listeners.generateFeatureFlagKeyFromName, run on the form `form`: the form it
\* leaves and the validation it starts
generateFeatureFlagKeyFromName(form) ==
    LET generatedKey ==
            generateFeatureFlagKey(trim(form.name), unavailableKeysOf(existingFeatureFlags))
    IN  IF ~IsBlank(form.name)
        THEN /\ experimentForm' = [form EXCEPT !.feature_flag_key = generatedKey]
             /\ validateFeatureFlagKey(generatedKey)
        ELSE /\ experimentForm' = form
             /\ notValidating

\* the name field: setExperimentFormValue('name', value), then the listener
\* listeners.setExperimentFormValue
setExperimentName(value) ==
    /\ location = <<"create">>
    /\ IF ~IsBlank(value) /\ featureFlagMode = "new"
       THEN generateFeatureFlagKeyFromName([experimentForm EXCEPT !.name = value])
       ELSE /\ experimentForm' = [experimentForm EXCEPT !.name = value]
            /\ notValidating
    /\ last' = [op |-> "setExperimentName", value |-> value]
    /\ UNCHANGED <<experimentFormTouched, featureFlagMode, selectedFeatureFlag, debounceTimer,
                   flagsVars, submitVars, toast, genVars, evalVars>>

\* setExperimentFormValue('feature_flag_key', value): the listener does nothing
setExperimentFlagKey(value) ==
    /\ location = <<"create">>
    /\ experimentForm' = [experimentForm EXCEPT !.feature_flag_key = value]
    /\ last' = [op |-> "setExperimentFlagKey", value |-> value]
    /\ UNCHANGED <<experimentFormTouched, featureFlagMode, selectedFeatureFlag, validationVars,
                   flagsVars, submitVars, toast, genVars, evalVars>>

\* the description field: setExperimentFormValue('description', value); the
\* listener does nothing
setExperimentDescription(value) ==
    /\ location = <<"create">>
    /\ experimentForm' = [experimentForm EXCEPT !.description = value]
    /\ last' = [op |-> "setExperimentDescription", value |-> value]
    /\ UNCHANGED <<experimentFormTouched, featureFlagMode, selectedFeatureFlag, validationVars,
                   flagsVars, submitVars, toast, genVars, evalVars>>

\* the Auto-generate button: actions.generateFeatureFlagKeyFromName()
generateFeatureFlagKeyFromNameClicked ==
    /\ location = <<"create">>
    /\ generateFeatureFlagKeyFromName(experimentForm)
    /\ last' = [op |-> "generateFeatureFlagKeyFromName"]
    /\ UNCHANGED <<experimentFormTouched, featureFlagMode, selectedFeatureFlag, debounceTimer,
                   flagsVars, submitVars, toast, genVars, evalVars>>

\* the listener without the debounce: the function runs at every event
updateFeatureFlagKeyUndebounced(key) ==
    /\ location = <<"create">>
    /\ IF ~IsBlank(key) THEN validateFeatureFlagKey(trim(key)) ELSE notValidating
    /\ debounceTimer' = Null
    /\ last' = [op |-> "updateFeatureFlagKey", key |-> key]
    /\ UNCHANGED <<formVars, flagsVars, submitVars, toast, genVars, evalVars>>

\* listeners.updateFeatureFlagKey = debounce(..., 500): clearTimeout(timeout), then
\* timeout = setTimeout(later, 500) with the arguments of this event; `cleared`
\* counts the pending calls clearTimeout has dropped since the timer last fired
updateFeatureFlagKey(key) ==
    /\ location = <<"create">>
    /\ debounceTimer' =
           [key |-> key,
            cleared |-> IF debounceTimer = Null THEN 0 ELSE debounceTimer.cleared + 1]
    /\ last' = [op |-> "updateFeatureFlagKey", key |-> key]
    /\ UNCHANGED <<formVars, featureFlagKeyValidationError, featureFlagValidation,
                   featureFlagValidationLoading, validatePending, latestCheck,
                   flagsVars, submitVars, toast, genVars, evalVars>>

\* the timer of the debounce fires: the debounced function runs
debounceTimerFires ==
    /\ debounceTimer # Null
    /\ IF ~IsBlank(debounceTimer.key)
       THEN validateFeatureFlagKey(trim(debounceTimer.key))
       ELSE notValidating
    /\ debounceTimer' = Null
    /\ last' = [op |-> "debounceTimerFires", key |-> debounceTimer.key,
                 cleared |-> debounceTimer.cleared]
    /\ UNCHANGED <<formVars, flagsVars, submitVars, toast, genVars, evalVars>>

\* reducers.featureFlagMode and listeners.setFeatureFlagMode
setFeatureFlagMode(mode) ==
    /\ location = <<"create">>
    /\ featureFlagMode' = mode
    /\ IF mode = "new"
       THEN /\ selectedFeatureFlag' = Null
            /\ generateFeatureFlagKeyFromName(experimentForm)
            /\ UNCHANGED flagsVars
       ELSE /\ experimentForm' = [experimentForm EXCEPT !.feature_flag_key = <<>>]
            /\ existingFeatureFlagsLoading' = TRUE
            /\ loadPending' = loadPending + 1
            /\ notValidating
            /\ UNCHANGED <<selectedFeatureFlag, existingFeatureFlags>>
    /\ last' = [op |-> "setFeatureFlagMode", mode |-> mode]
    /\ UNCHANGED <<experimentFormTouched, debounceTimer, submitVars, toast, genVars, evalVars>>

\* the answer to loadExistingFeatureFlags: response.results || [], or a failure
loadExistingFeatureFlagsResponse(ok) ==
    /\ loadPending > 0
    /\ loadPending' = loadPending - 1
    /\ existingFeatureFlagsLoading' = FALSE
    /\ existingFeatureFlags' = IF ok THEN RegistryFlags ELSE existingFeatureFlags
    /\ last' = [op |-> "loadExistingFeatureFlagsResponse", ok |-> ok]
    /\ UNCHANGED <<formVars, validationVars, submitVars, toast, genVars, evalVars>>

\* reducers.selectedFeatureFlag: the Select button of a row of the flags table,
\* shown in 'existing' mode
setSelectedFeatureFlag(flag) ==
    /\ location = <<"create">>
    /\ featureFlagMode = "existing"
    /\ flag \in Range(existingFeatureFlags)
    /\ selectedFeatureFlag' = flag
    /\ last' = [op |-> "setSelectedFeatureFlag", flag |-> flag]
    /\ UNCHANGED <<experimentForm, experimentFormTouched, featureFlagMode, validationVars,
                   flagsVars, submitVars, toast, genVars, evalVars>>

(***************************************************************************)
(* createExperimentLogic: saving                                           *)
(***************************************************************************)
\* the body of the create call with the name as typed, not trimmed
createPayloadUntrimmed(formValues) ==
    [ name |-> formValues.name,
      description |-> formValues.description,
      feature_flag_key |-> formValues.feature_flag_key,
      feature_flag_variants |-> formValues.feature_flag_variants,
      start_date |-> NullText ]

\* the body of api.create in forms.experimentForm.submit
createPayload(formValues) ==
    [ name |-> trim(formValues.name),
      description |-> formValues.description,
      feature_flag_key |-> formValues.feature_flag_key,
      feature_flag_variants |-> formValues.feature_flag_variants,
      start_date |-> NullText ]

\* actions.submitExperimentForm(): kea-forms calls submit(formValues) when the form
\* has no errors; submit runs up to `await api.create(...)`
submitExperimentForm(formValues) ==
    createPending' = createPending \cup {createPayload(formValues)}

\* listeners.saveAsDraft
saveAsDraft ==
    LET touched == experimentFormTouched \cup
                       (IF featureFlagMode = "new" THEN {"name", "feature_flag_key"}
                        ELSE {"name"})
        noFlagSelected == featureFlagMode = "existing" /\ selectedFeatureFlag = Null
        formToSubmit ==
            IF featureFlagMode = "existing" /\ selectedFeatureFlag # Null
            THEN [experimentForm EXCEPT !.feature_flag_key = selectedFeatureFlag.key]
            ELSE experimentForm
    IN  /\ location = <<"create">>
        /\ experimentFormTouched' = touched
        /\ IF noFlagSelected
           THEN /\ toast' = MsgSelectFlag
                /\ last' = [op |-> "saveAsDraft", submitted |-> FALSE]
                /\ UNCHANGED <<experimentForm, createPending>>
           ELSE IF hasFormErrors(experimentFormErrors)
           THEN /\ last' = [op |-> "saveAsDraft", submitted |-> FALSE]
                /\ UNCHANGED <<experimentForm, createPending, toast>>
           ELSE /\ experimentForm' = formToSubmit
                /\ submitExperimentForm(formToSubmit)
                /\ last' = [op |-> "saveAsDraft", submitted |-> TRUE]
                /\ UNCHANGED toast
        /\ UNCHANGED <<featureFlagMode, selectedFeatureFlag, validationVars, flagsVars,
                       location, genVars, evalVars>>

ExperimentId == 7

\* the answers api.create can give: the experiment created (with or without an id),
\* or an error (with or without a detail)
CreateResponses ==
    { [ok |-> TRUE, id |-> ExperimentId], [ok |-> TRUE, id |-> 0],
      [ok |-> FALSE, detail |-> "detail of the error"], [ok |-> FALSE, detail |-> NullText] }

\* the message of the catch block without the detail
errorMessageGeneric(error) == MsgCreateFailed

\* error.detail || 'Failed to create experiment'
errorMessage(error) == IF error.detail # NullText THEN error.detail ELSE MsgCreateFailed

\* forms.experimentForm.submit after `await api.create(...)`
createResponse(payload, response) ==
    /\ payload \in createPending
    /\ response \in CreateResponses
    /\ createPending' = createPending \ {payload}
    /\ IF response.ok
       THEN IF response.id # 0
            THEN /\ toast' = MsgSaved
                 /\ location' = <<"experiment", response.id>>
            ELSE UNCHANGED <<toast, location>>
       ELSE /\ toast' = errorMessage(response)
            /\ UNCHANGED location
    /\ last' = [op |-> "createResponse", ok |-> response.ok, response |-> response]
    /\ UNCHANGED <<formVars, validationVars, flagsVars, genVars, evalVars>>

\* listeners.cancelExperiment
cancelExperiment ==
    /\ location = <<"create">>
    /\ location' = <<"experiments">>
    /\ last' = [op |-> "cancelExperiment"]
    /\ UNCHANGED <<formVars, validationVars, flagsVars, createPending, toast, genVars, evalVars>>

(***************************************************************************)
(* The evaluations prototype: arrays and objects                           *)
(*                                                                         *)
(* An array is [ref, items] and an evaluation is a record with a field     *)
(* ref: ref is the identity of the JavaScript array or object.  Two values *)
(* with the same ref are the same array or object, and a mutation in place *)
(* (push, index assignment, property assignment) shows in every variable   *)
(* that holds it; a spread or a map, filter or [...] makes a new identity. *)
(***************************************************************************)
\* window.mockEvaluations before it is set: undefined
NoArray == [ref |-> 0, items |-> <<>>]

\* `eval-${n}`
EvalId(n) == <<"eval-", n>>

\* the key of the detail logic for a new evaluation, and the empty id
NewId == <<"new">>
EmptyId == <<>>

\* the suffix of the name of a duplicate
CopySuffix == " (Copy)"

\* MOCK_EVALUATIONS: the fields the two logics read or write
MOCK_EVALUATIONS ==
    [ ref |-> 1,
      items |->
        << [ ref |-> 2, id |-> EvalId(1), name |-> <<"Helpfulness Check">>,
             description |-> "helpful", enabled |-> TRUE, prompt |-> "Is this helpful?",
             conditions |-> <<10>> ],
           [ ref |-> 3, id |-> EvalId(2), name |-> <<"Safety Check">>,
             description |-> "safe", enabled |-> FALSE, prompt |-> "Is this safe?",
             conditions |-> <<5>> ] >> ]

\* { ...base, ...over }: the fields of over replace or extend those of base
spread(base, over) ==
    [f \in (DOMAIN base) \cup (DOMAIN over) |-> IF f \in DOMAIN over THEN over[f] ELSE base[f]]

\* an object literal is a new object
newObject(fields, ref) == spread(fields, [ref |-> ref])

\* Array.prototype.findIndex(e => e.id === id), counted from 1; 0 when there is none
findIndex(items, id) ==
    IF \E i \in 1..Len(items) : items[i].id = id
    THEN CHOOSE i \in 1..Len(items) :
             items[i].id = id /\ \A j \in 1..(i - 1) : items[j].id # id
    ELSE 0

\* Array.prototype.filter(e => e.id !== id)
RECURSIVE filterOutId(_, _)
filterOutId(items, id) ==
    IF items = <<>> THEN <<>>
    ELSE IF Head(items).id = id THEN filterOutId(Tail(items), id)
    ELSE <<Head(items)>> \o filterOutId(Tail(items), id)

\* array.push(item), seen through a variable holding `held`
afterPush(held, array, item) ==
    IF held.ref = array.ref THEN [held EXCEPT !.items = Append(@, item)] ELSE held

\* array[index] = item, seen through a variable holding `held`
afterAssign(held, array, index, item) ==
    IF held.ref = array.ref THEN [held EXCEPT !.items[index] = item] ELSE held

\* object.enabled = !object.enabled, seen through a variable holding `held`
afterToggleObject(held, object) ==
    IF "ref" \in DOMAIN held /\ held.ref = object.ref
    THEN [held EXCEPT !.enabled = ~@]
    ELSE held

\* the same, seen through a variable holding an array
afterToggleItem(held, object) ==
    [held EXCEPT !.items = [i \in 1..Len(@) |-> afterToggleObject(@[i], object)]]

(***************************************************************************)
(* llmEvaluationsLogic: reducers.evaluations                               *)
(* The array the reducer returns gets the identity ref; the object made    *)
(* for position i gets ref + i.                                            *)
(***************************************************************************)
\* createEvaluationSuccess, duplicateEvaluationSuccess: [...state, evaluation]
reduceAppend(state, item, ref) == [ref |-> ref, items |-> Append(state.items, item)]

\* updateEvaluationSuccess: state.map(e => e.id === id ? { ...e, ...evaluation } : e)
reduceUpdate(state, id, partial, ref) ==
    [ ref |-> ref,
      items |-> [i \in 1..Len(state.items) |->
                    IF state.items[i].id = id
                    THEN newObject(spread(state.items[i], partial), ref + i)
                    ELSE state.items[i]] ]

\* deleteEvaluationSuccess: state.filter(e => e.id !== id)
reduceDelete(state, id, ref) == [ref |-> ref, items |-> filterOutId(state.items, id)]

\* toggleEvaluationEnabledSuccess:
\* state.map(e => e.id === id ? { ...e, enabled: !e.enabled } : e)
reduceToggle(state, id, ref) ==
    [ ref |-> ref,
      items |-> [i \in 1..Len(state.items) |->
                    IF state.items[i].id = id
                    THEN newObject(spread(state.items[i], [enabled |-> ~state.items[i].enabled]),
                                   ref + i)
                    ELSE state.items[i]] ]

\* what the listeners of llmEvaluationsLogic leave alone
notListVars == <<experimentVars, latestCheck, evaluationsLoading, evaluationsLoadTimer,
                 evaluationId, evaluationRuns, evaluationLoading, evaluationFormSubmitting,
                 runsLoading, hasUnsavedChanges, saveTimers>>

(***************************************************************************)
(* llmEvaluationsLogic: listeners, each with the reducer of the action it  *)
(* dispatches (the listeners but loadEvaluations have no await)            *)
(***************************************************************************)
\* listeners.loadEvaluations after its setTimeout(500):
\* loadEvaluationsSuccess(window.mockEvaluations || [])
loadEvaluationsTimerFires ==
    /\ evaluationsLoadTimer > 0
    /\ evaluationsLoadTimer' = evaluationsLoadTimer - 1
    /\ IF mockEvaluations # NoArray
       THEN evaluations' = mockEvaluations /\ UNCHANGED nextRef
       ELSE evaluations' = [ref |-> nextRef, items |-> <<>>] /\ nextRef' = nextRef + 1
    /\ evaluationsLoading' = FALSE
    /\ last' = [op |-> "loadEvaluationsSuccess"]
    /\ UNCHANGED <<experimentVars, latestCheck, mockEvaluations, clock, detailVars>>

\* listeners.createEvaluation and createEvaluationSuccess
createEvaluation(partial) ==
    LET newEvaluation == newObject(spread(partial, [id |-> EvalId(clock)]), nextRef)
        store == mockEvaluations
    IN  /\ mockEvaluations' =
               IF store # NoArray THEN afterPush(store, store, newEvaluation) ELSE store
        /\ evaluations' =
               reduceAppend(IF store # NoArray THEN afterPush(evaluations, store, newEvaluation)
                            ELSE evaluations,
                            newEvaluation, nextRef + 1)
        /\ nextRef' = nextRef + 2
        /\ clock' = clock + 1
        /\ evaluation' = evaluation
        /\ last' = [op |-> "createEvaluation", id |-> EvalId(clock)]
        /\ UNCHANGED notListVars

\* listeners.updateEvaluation and updateEvaluationSuccess
updateEvaluation(id, partial) ==
    LET store == mockEvaluations
        index == findIndex(store.items, id)
        updated == newObject(spread(store.items[index], partial), nextRef)
        held == IF index >= 1 THEN afterAssign(evaluations, store, index, updated)
                ELSE evaluations
    IN  /\ mockEvaluations' =
               IF index >= 1 THEN afterAssign(store, store, index, updated) ELSE store
        /\ evaluations' = reduceUpdate(held, id, partial, nextRef + 1)
        /\ nextRef' = nextRef + 2 + Len(held.items)
        /\ evaluation' = evaluation
        /\ last' = [op |-> "updateEvaluation", id |-> id]
        /\ UNCHANGED <<notListVars, clock>>

\* listeners.deleteEvaluation and deleteEvaluationSuccess
deleteEvaluation(id) ==
    /\ mockEvaluations' =
           IF mockEvaluations # NoArray
           THEN [ref |-> nextRef, items |-> filterOutId(mockEvaluations.items, id)]
           ELSE mockEvaluations
    /\ evaluations' = reduceDelete(evaluations, id, nextRef + 1)
    /\ nextRef' = nextRef + 2
    /\ evaluation' = evaluation
    /\ last' = [op |-> "deleteEvaluation", id |-> id]
    /\ UNCHANGED <<notListVars, clock>>

\* listeners.duplicateEvaluation and duplicateEvaluationSuccess
duplicateEvaluation(id) ==
    LET store == mockEvaluations
        index == findIndex(store.items, id)
        original == store.items[index]
        duplicate ==
            newObject(spread(original, [id |-> EvalId(clock),
                                        name |-> Append(original.name, CopySuffix)]),
                      nextRef)
    IN  /\ IF index >= 1
           THEN /\ mockEvaluations' = afterPush(store, store, duplicate)
                /\ evaluations' =
                       reduceAppend(afterPush(evaluations, store, duplicate), duplicate,
                                    nextRef + 1)
                /\ nextRef' = nextRef + 2
                /\ clock' = clock + 1
           ELSE UNCHANGED <<mockEvaluations, evaluations, nextRef, clock>>
        /\ evaluation' = evaluation
        /\ last' = [op |-> "duplicateEvaluation", id |-> id, made |-> EvalId(clock)]
        /\ UNCHANGED notListVars

\* listeners.toggleEvaluationEnabled and toggleEvaluationEnabledSuccess
toggleEvaluationEnabled(id) ==
    LET store == mockEvaluations
        index == findIndex(store.items, id)
        object == store.items[index]
        held == IF index >= 1 THEN afterToggleItem(evaluations, object) ELSE evaluations
    IN  /\ mockEvaluations' = IF index >= 1 THEN afterToggleItem(store, object) ELSE store
        /\ evaluation' = IF index >= 1 THEN afterToggleObject(evaluation, object) ELSE evaluation
        /\ evaluations' = reduceToggle(held, id, nextRef)
        /\ nextRef' = nextRef + 1 + Len(held.items)
        /\ last' = [op |-> "toggleEvaluationEnabled", id |-> id]
        /\ UNCHANGED <<notListVars, clock>>

(***************************************************************************)
(* llmEvaluationLogic (the logic of one evaluation, keyed by its id)       *)
(***************************************************************************)
\* evaluationId before the logic is mounted
Unmounted == <<"unmounted">>

\* MOCK_RUNS[props.evaluationId] || [] : the ids of the runs
mockRunsOf(id) ==
    IF id = EvalId(1) THEN <<"run-1", "run-2", "run-3">>
    ELSE IF id = EvalId(2) THEN <<"run-4">>
    ELSE <<>>

\* the fields a spread of values.evaluation copies: none when it is null
fieldsOf(object) == IF object = Null THEN <<>> ELSE object

\* window.mockEvaluations?.find(e => e.id === id) || null
findEvaluation(id) ==
    IF findIndex(mockEvaluations.items, id) >= 1
    THEN mockEvaluations.items[findIndex(mockEvaluations.items, id)]
    ELSE Null

\* the newEvaluation of loadEvaluation for the id 'new'
blankEvaluation(ref) ==
    [ ref |-> ref, name |-> <<>>, description |-> "", enabled |-> TRUE, prompt |-> "",
      conditions |-> <<10>> ]

\* the record with the stored fields laid over the edited ones
savedRecordStoreFirst(stored, current, ref) == newObject(spread(fieldsOf(current), stored), ref)

\* { ...window.mockEvaluations[index], ...values.evaluation!, updated_at }
savedRecord(stored, current, ref) == newObject(spread(stored, fieldsOf(current)), ref)

\* actions.loadEvaluation() for the props id: reducers, listener, loadEvaluationSuccess
loadEvaluationFor(id) ==
    IF id # EmptyId /\ id # NewId
    THEN /\ evaluation' = findEvaluation(id)
         /\ evaluationLoading' = FALSE
         /\ hasUnsavedChanges' = FALSE
         /\ UNCHANGED nextRef
    ELSE IF id = NewId
    THEN /\ evaluation' = blankEvaluation(nextRef)
         /\ nextRef' = nextRef + 1
         /\ evaluationLoading' = FALSE
         /\ hasUnsavedChanges' = FALSE
    ELSE /\ evaluationLoading' = TRUE
         /\ UNCHANGED <<evaluation, hasUnsavedChanges, nextRef>>

\* actions.loadEvaluationRuns() for the props id
loadEvaluationRunsFor(id) ==
    IF id # EmptyId /\ id # NewId
    THEN evaluationRuns' = mockRunsOf(id) /\ runsLoading' = FALSE
    ELSE runsLoading' = TRUE /\ UNCHANGED evaluationRuns

\* what the actions of llmEvaluationLogic leave alone, but for the heap
notDetailVars == <<experimentVars, latestCheck, listVars>>

\* afterMount of the logic built for props.evaluationId = id
mountEvaluation(id) ==
    /\ evaluationId = Unmounted
    /\ evaluationId' = id
    /\ loadEvaluationFor(id)
    /\ IF id # NewId THEN loadEvaluationRunsFor(id) ELSE UNCHANGED <<evaluationRuns, runsLoading>>
    /\ last' = [op |-> "mountEvaluation", id |-> id]
    /\ UNCHANGED <<notDetailVars, mockEvaluations, clock, evaluationFormSubmitting, saveTimers>>

loadEvaluation ==
    /\ evaluationId # Unmounted
    /\ loadEvaluationFor(evaluationId)
    /\ last' = [op |-> "loadEvaluation"]
    /\ UNCHANGED <<notDetailVars, mockEvaluations, clock, evaluationId, evaluationRuns,
                   runsLoading, evaluationFormSubmitting, saveTimers>>

loadEvaluationRuns ==
    /\ evaluationId # Unmounted
    /\ loadEvaluationRunsFor(evaluationId)
    /\ last' = [op |-> "loadEvaluationRuns"]
    /\ UNCHANGED <<notDetailVars, heapVars, evaluationId, evaluation, evaluationLoading,
                   evaluationFormSubmitting, hasUnsavedChanges, saveTimers>>

\* refreshEvaluationRuns: its reducer, then the listener calls loadEvaluationRuns
refreshEvaluationRuns ==
    /\ evaluationId # Unmounted
    /\ loadEvaluationRunsFor(evaluationId)
    /\ last' = [op |-> "refreshEvaluationRuns"]
    /\ UNCHANGED <<notDetailVars, heapVars, evaluationId, evaluation, evaluationLoading,
                   evaluationFormSubmitting, hasUnsavedChanges, saveTimers>>

\* setEvaluationName, setEvaluationDescription, setEvaluationPrompt,
\* setEvaluationEnabled, setTriggerConditions: state ? { ...state, [field]: value } : null
setEvaluationField(field, value) ==
    /\ evaluationId # Unmounted
    /\ IF evaluation # Null
       THEN /\ evaluation' = newObject(spread(evaluation, field :> value), nextRef)
            /\ nextRef' = nextRef + 1
       ELSE UNCHANGED <<evaluation, nextRef>>
    /\ hasUnsavedChanges' = TRUE
    /\ last' = [op |-> "setEvaluationField", field |-> field, inFlight |-> saveTimers]
    /\ UNCHANGED <<notDetailVars, mockEvaluations, clock, evaluationId, evaluationRuns,
                   evaluationLoading, evaluationFormSubmitting, runsLoading, saveTimers>>

resetEvaluation ==
    /\ evaluationId # Unmounted
    /\ evaluation' = Null
    /\ hasUnsavedChanges' = FALSE
    /\ last' = [op |-> "resetEvaluation"]
    /\ UNCHANGED <<notDetailVars, heapVars, evaluationId, evaluationRuns, evaluationLoading,
                   evaluationFormSubmitting, runsLoading, saveTimers>>

\* actions.saveEvaluation(): the reducer, and the listener up to its setTimeout(300)
saveEvaluation ==
    /\ evaluationId # Unmounted
    /\ evaluationFormSubmitting' = TRUE
    /\ saveTimers' = saveTimers + 1
    /\ last' = [op |-> "saveEvaluation"]
    /\ UNCHANGED <<notDetailVars, heapVars, evaluationId, evaluation, evaluationRuns,
                   evaluationLoading, runsLoading, hasUnsavedChanges>>

\* listeners.saveEvaluation after its setTimeout, and saveEvaluationSuccess
saveEvaluationTimerFires ==
    LET store == mockEvaluations
        newEvaluation == newObject(spread(fieldsOf(evaluation), [id |-> EvalId(clock)]), nextRef)
        index == findIndex(store.items, evaluationId)
        saved == savedRecord(store.items[index], evaluation, nextRef)
    IN  /\ saveTimers > 0
        /\ saveTimers' = saveTimers - 1
        /\ IF evaluationId = NewId
           THEN /\ mockEvaluations' =
                       IF store # NoArray THEN afterPush(store, store, newEvaluation) ELSE store
                /\ evaluations' =
                       IF store # NoArray THEN afterPush(evaluations, store, newEvaluation)
                       ELSE evaluations
                /\ evaluation' = newEvaluation
                /\ nextRef' = nextRef + 1
                /\ clock' = clock + 1
           ELSE /\ IF index >= 1
                   THEN /\ mockEvaluations' = afterAssign(store, store, index, saved)
                        /\ evaluations' = afterAssign(evaluations, store, index, saved)
                        /\ nextRef' = nextRef + 1
                   ELSE UNCHANGED <<mockEvaluations, evaluations, nextRef>>
                /\ UNCHANGED <<evaluation, clock>>
        /\ evaluationFormSubmitting' = FALSE
        /\ hasUnsavedChanges' = FALSE
        /\ last' = [ op |-> "saveEvaluationSuccess",
                      editedInFlight |-> (last.op = "setEvaluationField" /\ last.inFlight > 0) ]
        /\ UNCHANGED <<experimentVars, latestCheck, evaluationsLoading, evaluationsLoadTimer,
                       evaluationId, evaluationRuns, evaluationLoading, runsLoading>>

(***************************************************************************)
(* createExperimentLogic: the state when the logic is mounted              *)
(***************************************************************************)
InitLogic ==
    /\ experimentForm = NEW_EXPERIMENT
    /\ experimentFormTouched = {}
    /\ featureFlagMode = "new"
    /\ selectedFeatureFlag = Null
    /\ featureFlagKeyValidationError = NullText
    /\ existingFeatureFlags = <<>>
    /\ existingFeatureFlagsLoading = FALSE
    /\ featureFlagValidation = Null
    /\ featureFlagValidationLoading = FALSE
    /\ loadPending = 0
    /\ validatePending = {}
    /\ debounceTimer = Null
    /\ createPending = {}
    /\ toast = NoToast
    /\ location = <<"create">>
    /\ last = [op |-> "mount"]
    /\ latestCheck = NoCheck

\* generateFeatureFlagKey before it is called
InitIdleGen ==
    /\ gName = <<>>
    /\ gUnavailableKeys = {}
    /\ gKey = <<>>
    /\ gCounter = 1
    /\ gPc = "idle"

(***************************************************************************)
(* Specifications.  The model is bounded by the number of calls in flight  *)
(* and by the values the user enters; each specification runs the          *)
(* listeners of one part of the form, on the state left by mounting.       *)
(***************************************************************************)
\* the evaluations prototype once llmEvaluationsLogic is mounted: the reducer holds
\* MOCK_EVALUATIONS itself, afterMount has set window.mockEvaluations to
\* [...MOCK_EVALUATIONS], a new array of the same objects, and has called
\* loadEvaluations; llmEvaluationLogic is not mounted yet
FirstRef == 5
ClockStart == 3

InitEvals ==
    /\ mockEvaluations = [ref |-> 4, items |-> MOCK_EVALUATIONS.items]
    /\ nextRef = FirstRef
    /\ clock = ClockStart
    /\ evaluations = MOCK_EVALUATIONS
    /\ evaluationsLoading = TRUE
    /\ evaluationsLoadTimer = 1
    /\ evaluationId = Unmounted
    /\ evaluation = Null
    /\ evaluationRuns = <<>>
    /\ evaluationLoading = FALSE
    /\ evaluationFormSubmitting = FALSE
    /\ runsLoading = FALSE
    /\ hasUnsavedChanges = FALSE
    /\ saveTimers = 0

Init == InitLogic /\ InitIdleGen /\ InitEvals

\* the answer to the lookup of a pending validation: a failure, or the flags found
validateFeatureFlagKeyAnswered ==
    \E call \in validatePending :
        \E response \in LookupResponses(call.key) :
            validateFeatureFlagKeyResponse(call, response)

(***************************************************************************)
(* SpecValidate: the name and key fields, the modes, the validator         *)
(***************************************************************************)
MaxInFlight == 2
MaxLoadsInFlight == 1
MaxCleared == 1

FormNames == { <<>>, <<"a">>, <<"a","b">>, <<"!">> }

TypedKeys == { <<>>, <<"a">>, <<"b"," ">> }

CanValidate == Cardinality(validatePending) < MaxInFlight

CanType == IF debounceTimer = Null THEN TRUE ELSE debounceTimer.cleared < MaxCleared

NextValidate ==
    \/ (CanValidate /\ \E value \in FormNames : setExperimentName(value))
    \/ (CanType /\ \E key \in TypedKeys : updateFeatureFlagKey(key))
    \/ (CanValidate /\ debounceTimerFires)
    \/ (CanValidate /\ generateFeatureFlagKeyFromNameClicked)
    \/ (CanValidate /\ loadPending < MaxLoadsInFlight
            /\ \E mode \in {"new", "existing"} : setFeatureFlagMode(mode))
    \/ \E ok \in BOOLEAN : loadExistingFeatureFlagsResponse(ok)
    \/ validateFeatureFlagKeyAnswered

SpecValidate == Init /\ [][NextValidate]_vars

(***************************************************************************)
(* Spec: filling in the form and saving it                                 *)
(***************************************************************************)
MaxSaveInFlight == 1
MaxCreatesInFlight == 1

SaveNames == { <<" ">>, <<"a">>, <<"a", " ">> }

SaveDescriptions == { <<"d">> }

SaveKeys == { <<>>, <<"a","b">> }

SaveRolloutInputs == {50, 60}

CanValidateOne == Cardinality(validatePending) < MaxSaveInFlight

Next ==
    \/ (CanValidateOne /\ \E value \in SaveNames : setExperimentName(value))
    \/ \E value \in SaveKeys : setExperimentFlagKey(value)
    \/ \E value \in SaveDescriptions : setExperimentDescription(value)
    \/ validateFeatureFlagKeyAnswered
    \/ (CanValidateOne /\ loadPending < MaxLoadsInFlight
            /\ \E mode \in {"new", "existing"} : setFeatureFlagMode(mode))
    \/ loadExistingFeatureFlagsResponse(TRUE)
    \/ \E flag \in Range(existingFeatureFlags) : setSelectedFeatureFlag(flag)
    \/ \E numVal \in SaveRolloutInputs : setVariantRollout(0, numVal)
    \/ (Cardinality(createPending) < MaxCreatesInFlight /\ saveAsDraft)
    \/ \E payload \in createPending, response \in CreateResponses :
           createResponse(payload, response)
    \/ cancelExperiment

Spec == Init /\ [][Next]_vars

(***************************************************************************)
(* SpecAlloc: the variant listeners on long variant lists.  Variants are   *)
(* removed at the end of the list and the share of the first is edited,    *)
(* which keeps the lists of each length few.                               *)
(***************************************************************************)
MaxAllocVariants == 18
MaxFreeRemoveLen == 3

RolloutInputs == {0, 60}

NextAlloc ==
    \/ (Len(variants) < MaxAllocVariants /\ addVariant)
    \/ \E index \in 0..Len(variants) :
           /\ index = Len(variants) - 1 \/ Len(variants) <= MaxFreeRemoveLen
           /\ removeVariant(index)
    \/ \E index \in 0..Len(variants) :
           /\ index = Len(variants) - 1 \/ Len(variants) <= MaxFreeRemoveLen
           /\ handleRemoveVariant(index)
    \/ distributeVariantsEqually
    \/ \E numVal \in RolloutInputs : setVariantRollout(0, numVal)

SpecAlloc == Init /\ [][NextAlloc]_vars

(***************************************************************************)
(* The evaluations list: llmEvaluationsLogic after its afterMount, the     *)
(* 500 ms timer of loadEvaluations pending, and the user's mutations       *)
(***************************************************************************)
MaxRef == 14
MaxEvaluations == 4

\* the ids the list's actions are called with: the two mock ones, the first made one
ListIds == {EvalId(1), EvalId(2), EvalId(ClockStart)}

\* the evaluation the create form passes
CreatePartials ==
    { [ name |-> <<"Tone">>, description |-> "", enabled |-> TRUE, prompt |-> "p",
        conditions |-> <<10>> ] }

\* the fields an update passes
UpdatePartials == { [name |-> <<"Renamed">>], [enabled |-> FALSE] }

CanAllocate == nextRef < MaxRef

CanGrow == Len(evaluations.items) < MaxEvaluations

NextEvals ==
    \/ loadEvaluationsTimerFires
    \/ (CanAllocate /\ CanGrow /\ \E partial \in CreatePartials : createEvaluation(partial))
    \/ (CanAllocate /\ \E id \in ListIds, partial \in UpdatePartials :
            updateEvaluation(id, partial))
    \/ (CanAllocate /\ \E id \in ListIds : deleteEvaluation(id))
    \/ (CanAllocate /\ CanGrow /\ \E id \in ListIds : duplicateEvaluation(id))
    \/ (CanAllocate /\ \E id \in ListIds : toggleEvaluationEnabled(id))

SpecEvals == Init /\ [][NextEvals]_vars

(***************************************************************************)
(* One evaluation: llmEvaluationLogic mounted for an id, edited, saved     *)
(***************************************************************************)
MaxSavesInFlight == 2
MaxDetailRef == 9

CanAllocateDetail == nextRef < MaxDetailRef

\* props.evaluationId: a stored id, an id not in the store, 'new', and ''
DetailIds == {EvalId(1), EvalId(9), NewId, EmptyId}

\* what the form's setters are called with
FieldEdits ==
    { <<"name", <<"Renamed">> >>, <<"prompt", "q">>, <<"enabled", FALSE>> }

NextEval ==
    \/ \E id \in DetailIds : mountEvaluation(id)
    \/ loadEvaluationsTimerFires
    \/ (CanAllocateDetail /\ loadEvaluation)
    \/ loadEvaluationRuns
    \/ refreshEvaluationRuns
    \/ (CanAllocateDetail /\ \E edit \in FieldEdits : setEvaluationField(edit[1], edit[2]))
    \/ resetEvaluation
    \/ (saveTimers < MaxSavesInFlight /\ saveEvaluation)
    \/ (CanAllocateDetail /\ saveEvaluationTimerFires)

SpecEval == Init /\ [][NextEval]_vars

(***************************************************************************)
(* generateFeatureFlagKey run step by step on bounded inputs               *)
(***************************************************************************)
MaxNameLen == 4

GenAlphabet == {"a", "B", "-", "!"}

RECURSIVE SeqsUpTo(_, _)
SeqsUpTo(S, n) ==
    IF n = 0 THEN {<<>>}
    ELSE LET shorter == SeqsUpTo(S, n - 1)
         IN  shorter \cup {Append(s, c) : s \in {t \in shorter : Len(t) = n - 1}, c \in S}

PricingPageName == <<"P","r","i","c","i","n","g"," ","P","a","g","e","!","!">>
PricingPageKey  == <<"p","r","i","c","i","n","g","-","p","a","g","e">>
TestName        == <<"t","e","s","t">>

GenNames == SeqsUpTo(GenAlphabet, MaxNameLen) \cup {PricingPageName, TestName}

GenReservedUniverse ==
    { <<>>, <<"-","1">>, <<"a">>, <<"a","-","1">>,
      TestName, TestName \o <<"-","1">> }

InitGen ==
    /\ gName \in GenNames
    /\ gUnavailableKeys \in SUBSET GenReservedUniverse
    /\ gKey = baseKeyOf(gName)          \* let key = baseKey
    /\ gCounter = 1                     \* let counter = 1
    /\ gPc = "loop"
    /\ InitLogic
    /\ InitEvals

\* one iteration of the while loop
GenLoopStep ==
    /\ gPc = "loop"
    /\ loopCondition(gKey, gCounter, gUnavailableKeys)
    /\ gKey' = candidateKey(baseKeyOf(gName), gCounter)
    /\ gCounter' = gCounter + 1
    /\ UNCHANGED <<gName, gUnavailableKeys, gPc, logicVars, evalVars>>

\* the loop condition is false: return key
GenReturn ==
    /\ gPc = "loop"
    /\ ~loopCondition(gKey, gCounter, gUnavailableKeys)
    /\ gPc' = "done"
    /\ UNCHANGED <<gName, gUnavailableKeys, gKey, gCounter, logicVars, evalVars>>

NextGen == GenLoopStep \/ GenReturn

\* The function is synchronous code: once called it keeps running.
SpecKey == InitGen /\ [][NextGen]_vars /\ WF_vars(NextGen)

(***************************************************************************)
(* Properties of generateFeatureFlagKey                                    *)
(***************************************************************************)
\* The normalized base as the specification words it: the name lowercased, every
\* maximal run of characters outside [A-Za-z0-9-_] replaced by one "-", and the
\* leading and trailing "-" removed.
NormalizedBase(name) ==
    LET L == toLowerCase(name)
        \* an allowed character, or the first character of a maximal run
        Kept == {i \in 1..Len(L) : InKeyClass(L[i]) \/ i = 1 \/ InKeyClass(L[i - 1])}
        Nth(k) == CHOOSE i \in Kept : Cardinality({j \in Kept : j <= i}) = k
        Collapsed == [k \in 1..Cardinality(Kept) |->
                        IF InKeyClass(L[Nth(k)]) THEN L[Nth(k)] ELSE "-"]
        Solid == {k \in 1..Len(Collapsed) : Collapsed[k] # "-"}
        First == CHOOSE k \in Solid : \A j \in Solid : k <= j
        Last == CHOOSE k \in Solid : \A j \in Solid : j <= k
    IN  IF Solid = {} THEN <<>> ELSE SubSeq(Collapsed, First, Last)

OnlyDisallowed(name) == \A i \in 1..Len(name) : ~InKeyClass(name[i])

\* C8: for every name and every finite reserved set the function terminates, and
\* the key it returns is not a member of the reserved set.
\* Termination is stated with a variant: every iteration of the loop increments
\* the counter, and the counter never exceeds the size of the reserved set by more
\* than one, so the loop runs at most as many times as there are reserved keys
\* (GenLoopStep and GenReturn have complementary guards, so a step is always
\* enabled until the call has returned).
C8_ReturnsUnreservedKey ==
    /\ gPc = "done" => gKey \notin gUnavailableKeys
    /\ gCounter <= Cardinality(gUnavailableKeys) + 1

\* C8 witness: a call that went twice round the loop has returned.
C8_Witness ==
    /\ gPc = "done"
    /\ gCounter = 3
    /\ baseKeyOf(gName) \in gUnavailableKeys
    /\ gKey \notin gUnavailableKeys

\* C9: for a name made only of characters outside [A-Za-z0-9-_], and every reserved
\* set (the empty one included), the key returned is a non-empty string.
C9_NonEmptyKeyForDisallowedName ==
    (gPc = "done" /\ OnlyDisallowed(gName)) => gKey # <<>>

\* C10: when the normalized base is not reserved the function returns exactly the
\* normalized base; "Pricing Page!!" with no reserved key gives "pricing-page".
C10_ReturnsNormalizedBase ==
    /\ (gPc = "done" /\ NormalizedBase(gName) \notin gUnavailableKeys)
            => gKey = NormalizedBase(gName)
    /\ (gPc = "done" /\ gName = PricingPageName /\ gUnavailableKeys = {})
            => gKey = PricingPageKey

\* C10 witness: the call for "Pricing Page!!" with no reserved key has returned.
C10_Witness ==
    /\ gPc = "done"
    /\ gName = PricingPageName
    /\ gUnavailableKeys = {}
    /\ gKey = PricingPageKey

\* C10 second witness state: a name with an inner run of two disallowed characters.
C10_InnerRunReached ==
    gPc = "done" /\ gName = <<"a", "!", "!", "a">> /\ gKey = <<"a", "-", "a">>

\* base-k as the specification words it
Numbered(base, k) == base \o <<"-">> \o numberToString(k)

\* C11: when the normalized base is reserved the function returns base-k for the
\* smallest k >= 1 such that base-k is not reserved: every base-j with 1 <= j < k
\* is reserved; ("test", {"test"}) gives "test-1" and ("test", {"test", "test-1"})
\* gives "test-2".
C11_SmallestFreeSuffix ==
    /\ (gPc = "done" /\ NormalizedBase(gName) \in gUnavailableKeys) =>
            \E k \in 1..Cardinality(gUnavailableKeys) :
                /\ gKey = Numbered(NormalizedBase(gName), k)
                /\ gKey \notin gUnavailableKeys
                /\ \A j \in 1..(k - 1) : Numbered(NormalizedBase(gName), j) \in gUnavailableKeys
    /\ (gPc = "done" /\ gName = TestName /\ gUnavailableKeys = {TestName}) =>
            gKey = <<"t","e","s","t","-","1">>
    /\ (gPc = "done" /\ gName = TestName /\ gUnavailableKeys = {TestName, Numbered(TestName, 1)}) =>
            gKey = <<"t","e","s","t","-","2">>

\* C11 witness: the call ("test", {"test", "test-1"}) has returned "test-2".
C11_Witness ==
    /\ gPc = "done"
    /\ gName = TestName
    /\ gUnavailableKeys = {TestName, Numbered(TestName, 1)}
    /\ gKey = <<"t","e","s","t","-","2">>

(***************************************************************************)
(* Properties of the variant listeners (SpecAlloc)                         *)
(***************************************************************************)
variantsAfter == experimentForm'.feature_flag_variants

\* C4: immediately after distributeVariantsEqually on a list of N >= 1 variants,
\* however the list was reached, the rollout percentages sum to exactly 100; on
\* an empty list the operation changes nothing.
C4_DistributeSumsTo100 ==
    [][ last'.op = "distributeVariantsEqually" =>
            IF Len(variants) >= 1
            THEN sumOfRollout(variantsAfter) = 100
            ELSE variantsAfter = variants ]_vars

\* C4 witness: three variants, one share edited by hand, have been distributed:
\* 33, 33 and the remainder on the last.
C4_Witness ==
    /\ last.op = "distributeVariantsEqually"
    /\ Len(variants) = 3
    /\ variants[1].rollout_percentage = 33
    /\ variants[3].rollout_percentage = 34
    /\ variantPercentageSum = 100

\* C5: after any sequence of addVariant and removeVariant from [control, test],
\* every variant key is non-empty and the keys are pairwise distinct.
C5_VariantKeysDistinct ==
    \A i \in 1..Len(variants) :
        /\ variants[i].key # <<>>
        /\ \A j \in 1..Len(variants) : i # j => variants[i].key # variants[j].key

\* C6: in every state reached by addVariant, removeVariant and
\* distributeVariantsEqually, every rollout_percentage is an integer in [0, 100].
C6_RolloutInRange ==
    \A i \in 1..Len(variants) : variants[i].rollout_percentage \in 0..100

\* C7: removeVariant on a list of at most 2 variants leaves the list unchanged and
\* raises the error toast; so the list never has fewer than 2 variants.
C7_RemoveRejectedAtMinimum ==
    [][ /\ Len(variants) >= 2
        /\ Len(variantsAfter) >= 2
        /\ (last'.op = "removeVariant" /\ Len(variants) <= 2) =>
               (variantsAfter = variants /\ toast' = MsgMinVariants) ]_vars

\* C7 witness: a removal was asked of a list of two variants and was rejected.
C7_Witness ==
    /\ last.op = "removeVariant"
    /\ last.rejected
    /\ Len(variants) = 2
    /\ toast = MsgMinVariants

\* round(100 / n), a half rounded up: the integer b with b - 1/2 <= 100/n < b + 1/2
RoundedShare(n) ==
    CHOOSE b \in 0..100 : (2 * b - 1) * n <= 200 /\ 200 < (2 * b + 1) * n

\* C18: distributeVariantsEqually on N >= 1 variants gives base = round(100/N) to
\* every variant but the last and base - (base*N - 100) to the last; [33, 33, 34]
\* for N = 3 and [25, 25, 25, 25] for N = 4; keys, names, order and number of the
\* variants are unchanged.
C18_DistributeShares ==
    [][ (last'.op = "distributeVariantsEqually" /\ Len(variants) >= 1) =>
            LET N == Len(variants)
                base == RoundedShare(N)
                shares == [i \in 1..N |-> variantsAfter[i].rollout_percentage]
            IN  /\ Len(variantsAfter) = N
                /\ \A i \in 1..N :
                       /\ variantsAfter[i].key = variants[i].key
                       /\ variantsAfter[i].name = variants[i].name
                       /\ shares[i] = IF i < N THEN base ELSE base - (base * N - 100)
                /\ N = 3 => shares = <<33, 33, 34>>
                /\ N = 4 => shares = <<25, 25, 25, 25>> ]_vars

\* C18 witness: four variants have been distributed, 25 each.
C18_Witness ==
    /\ last.op = "distributeVariantsEqually"
    /\ Len(variants) = 4
    /\ \A i \in 1..4 : variants[i].rollout_percentage = 25
    /\ variants[1].key = ControlKey
    /\ variants[2].key = TestKey

\* C19: addVariant on N variants gives N + 1 variants: the first N are the previous
\* ones, unchanged and in the same order (so the sum of the shares is unchanged),
\* and the last has key 'variant-<N+1>', an empty name and rollout_percentage 0.
C19_AddAppends ==
    [][ last'.op = "addVariant" =>
            LET N == Len(variants)
            IN  /\ Len(variantsAfter) = N + 1
                /\ SubSeq(variantsAfter, 1, N) = variants
                /\ sumOfRollout(variantsAfter) = sumOfRollout(variants)
                /\ variantsAfter[N + 1] =
                       [ key |-> <<"v","a","r","i","a","n","t","-">> \o numberToString(N + 1),
                         name |-> <<>>,
                         rollout_percentage |-> 0 ] ]_vars

\* C19 witness: a third variant, 'variant-3' with share 0, was added to 60 + 50.
C19_Witness ==
    /\ last.op = "addVariant"
    /\ Len(variants) = 3
    /\ variants[1].rollout_percentage = 60
    /\ variants[3] = [key |-> <<"v","a","r","i","a","n","t","-","3">>, name |-> <<>>,
                       rollout_percentage |-> 0]

\* C20: removeVariant(index) on more than 2 variants, 0 <= index < length, removes
\* exactly the element at index: the elements before it keep their position, those
\* after it move down by one, and each keeps its key, name and rollout_percentage.
C20_RemoveExactlyIndex ==
    [][ ( /\ last'.op = "removeVariant"
          /\ Len(variants) > 2
          /\ last'.index \in 0..(Len(variants) - 1) ) =>
            /\ Len(variantsAfter) = Len(variants) - 1
            /\ \A i \in 1..Len(variantsAfter) :
                   variantsAfter[i] = IF i <= last'.index THEN variants[i] ELSE variants[i + 1] ]_vars

\* C20 witness: the middle one of three variants with shares 60, 50, 0 was removed.
C20_Witness ==
    /\ last.op = "removeVariant"
    /\ ~last.rejected
    /\ last.index = 1
    /\ Len(variants) = 2
    /\ variants[1] = [key |-> ControlKey, name |-> Undefined, rollout_percentage |-> 60]
    /\ variants[2].key = <<"v","a","r","i","a","n","t","-","3">>

(***************************************************************************)
(* Properties of the validator (SpecValidate)                              *)
(***************************************************************************)
\* C1: when validation was issued for K1 and then for K2, once the last of the
\* lookups has answered, whichever it is, the visible validation state
\* (featureFlagKeyValidationError, featureFlagValidation) is the one computed for
\* K2, the most recently issued key; the answer for the superseded K1 never
\* overwrites it.
C1_LatestValidationWins ==
    ( /\ validatePending = {}
      /\ last.op = "validateFeatureFlagKeyResponse"
      /\ last.latest \/ last.key # latestCheck.key
      /\ latestCheck.status = "done"
      /\ latestCheck.outcome \in {"available", "taken", "error"} ) =>
        /\ featureFlagValidation = latestCheck.validation
        /\ featureFlagKeyValidationError = latestCheck.error

\* the step just taken was a name edit in 'new' mode whose generated key is blank:
\* validateFeatureFlagKey was called with that key and has completed
BlankKeyValidated ==
    /\ last.op = "setExperimentName"
    /\ ~IsBlank(last.value)
    /\ featureFlagMode = "new"
    /\ trim(experimentForm.feature_flag_key) = <<>>

\* the step just taken was the answer to the lookup of the latest validation
LatestAnswered ==
    /\ last.op = "validateFeatureFlagKeyResponse"
    /\ last.latest
    /\ latestCheck.status = "done"

\* C12: validating an empty or whitespace-only key issues no remote lookup, and
\* once the validation call has completed the visible state is the required-field
\* error: featureFlagKeyValidationError holds the 'required' reason.
C12_BlankKeyRequired ==
    BlankKeyValidated =>
        /\ \A call \in validatePending : ~call.latest
        /\ featureFlagKeyValidationError = MsgKeyRequired

\* C13: when the lookup for key K succeeds and returns a flag whose key is exactly
\* K, then after the validation has completed, no newer one issued, the visible
\* state is 'taken': featureFlagKeyValidationError holds the 'already in use'
\* reason.
C13_TakenKeepsReason ==
    (LatestAnswered /\ latestCheck.outcome # "error" /\ latestCheck.key \in RegistryKeys) =>
        featureFlagKeyValidationError = MsgKeyInUse

\* C14: when the lookup for key K succeeds and no returned flag has key exactly K,
\* even if returned keys contain K, the state is 'available': the result is
\* {available: true} and featureFlagKeyValidationError is null.
C14_NoExactMatchAvailable ==
    (LatestAnswered /\ latestCheck.outcome # "error" /\ latestCheck.key \notin RegistryKeys) =>
        /\ featureFlagValidation = [available |-> TRUE]
        /\ featureFlagKeyValidationError = NullText

\* C14 witness: "ab", which the registered key "abc" contains, was looked up and
\* found available.
C14_Witness ==
    /\ LatestAnswered
    /\ latestCheck.key = <<"a", "b">>
    /\ latestCheck.outcome = "available"
    /\ \E flagKey \in RegistryKeys : flagKey # latestCheck.key /\ IsSubstring(latestCheck.key, flagKey)
    /\ featureFlagValidation = [available |-> TRUE]

\* C15: a remote failure of the lookup leaves the validator in the error state
\* with the 'validation error' reason; and a later validation whose lookup
\* succeeds replaces the state with 'available' or 'taken' according to the lookup.
C15_LookupFailureReason ==
    /\ (LatestAnswered /\ latestCheck.outcome = "error") =>
            featureFlagKeyValidationError = MsgKeyError
    /\ (LatestAnswered /\ latestCheck.outcome # "error") =>
            featureFlagValidation = [available |-> latestCheck.key \notin RegistryKeys]

\* C16: in a burst of updateFeatureFlagKey events less than 500ms apart (the timer
\* of the debounce does not fire between them) no validation is issued by the
\* events: each one drops the pending check of the previous one and leaves one
\* pending check, for its own key; when the timer fires after the burst, one
\* validateFeatureFlagKey is issued, for the trimmed key of the last event, and
\* none if that key is blank.
C16_KeyEditsDebounced ==
    [][ /\ last'.op = "updateFeatureFlagKey" =>
            /\ validatePending' = validatePending
            /\ latestCheck' = latestCheck
            /\ featureFlagValidationLoading' = featureFlagValidationLoading
            /\ debounceTimer' # Null
            /\ debounceTimer'.key = last'.key
        /\ last'.op = "debounceTimerFires" =>
            /\ debounceTimer.key = last'.key
            /\ debounceTimer' = Null
            /\ IF trim(last'.key) = <<>>
               THEN validatePending' = validatePending /\ latestCheck' = latestCheck
               ELSE /\ latestCheck'.key = trim(last'.key)
                    /\ latestCheck'.status = "pending"
                    /\ Cardinality({call \in validatePending' : call.latest}) = 1
                    /\ \A call \in validatePending' : call.latest => call.key = trim(last'.key)
                    /\ Cardinality(validatePending') <= Cardinality(validatePending) + 1 ]_vars

\* C16 witness: after a burst of two events the timer has fired and one validation,
\* for the trimmed key "b" of the last event "b ", is pending.
C16_Witness ==
    /\ last.op = "debounceTimerFires"
    /\ last.cleared = 1
    /\ last.key = <<"b", " ">>
    /\ latestCheck.key = <<"b">>
    /\ latestCheck.status = "pending"
    /\ validatePending = {[key |-> <<"b">>, latest |-> TRUE]}

\* the step just taken was a name edit that issued a remote lookup
LookupIssuedByNameEdit ==
    /\ last.op = "setExperimentName"
    /\ ~IsBlank(last.value)
    /\ featureFlagMode = "new"
    /\ latestCheck.status = "pending"
    /\ \E call \in validatePending : call.latest /\ call.key = latestCheck.key

\* C17: the check of a key proposed from the name is debounced: in 'new' mode, of
\* two name edits in a row (a burst), each setting another non-blank name, at most
\* one issues a remote lookup, not one lookup per edit.
C17_NameEditsDebounced ==
    [][ ( /\ LookupIssuedByNameEdit
          /\ last'.op = "setExperimentName"
          /\ last'.value # last.value ) =>
            ~LookupIssuedByNameEdit' ]_vars

(***************************************************************************)
(* Properties of saving (Spec)                                             *)
(***************************************************************************)
\* C2: saveAsDraft never submits the form while the rollout percentages do not sum
\* to 100, and does submit once they do and the other fields are valid.
C2_SubmitGatedOnSum ==
    [][ last'.op = "saveAsDraft" =>
            /\ last'.submitted => variantPercentageSum = 100
            /\ ( /\ variantPercentageSum = 100
                 /\ ~hasFormErrors(experimentFormErrors)
                 /\ ~(featureFlagMode = "existing" /\ selectedFeatureFlag = Null) )
                   => last'.submitted ]_vars

\* C3: in 'new' mode saveAsDraft does not submit the form while the most recent
\* uniqueness check, made for the current feature_flag_key, reported it taken.
C3_SubmitGatedOnKeyAvailable ==
    [][ (last'.op = "saveAsDraft" /\ last'.submitted /\ featureFlagMode = "new") =>
            ~( /\ latestCheck.status = "done"
               /\ latestCheck.outcome = "taken"
               /\ latestCheck.key = experimentForm.feature_flag_key ) ]_vars


\* C21: when the create call is rejected, an error notification is shown with the
\* collaborator's detail message if there is one and the generic message if not,
\* no navigation happens, and every value of the form (name, description,
\* feature_flag_key, variants) is as before, so that saveAsDraft can be retried.
C21_RejectedCreateKeepsForm ==
    [][ (last'.op = "createResponse" /\ ~last'.ok) =>
            /\ toast' = IF last'.response.detail # NullText
                        THEN last'.response.detail
                        ELSE "Failed to create experiment"
            /\ location' = location
            /\ experimentForm' = experimentForm
            /\ location = <<"create">> => location' = <<"create">> ]_vars

\* C21 witness: a create call of a form with a name, a description and a key was
\* rejected with a detail, and the form is still on screen with these values.
C21_Witness ==
    /\ last.op = "createResponse"
    /\ ~last.ok
    /\ last.response.detail # NullText
    /\ toast = last.response.detail
    /\ location = <<"create">>
    /\ experimentForm.name = <<"a">>
    /\ experimentForm.description = <<"d">>
    /\ experimentForm.feature_flag_key = <<"a">>

\* C22: saveAsDraft never submits while the trimmed name is empty nor, in 'new'
\* mode, while the trimmed feature_flag_key is empty: no create call is made.
C22_RequiredFieldsBlockSubmit ==
    [][ ( /\ last'.op = "saveAsDraft"
          /\ \/ trim(experimentForm.name) = <<>>
             \/ featureFlagMode = "new" /\ trim(experimentForm.feature_flag_key) = <<>> ) =>
            /\ ~last'.submitted
            /\ createPending' = createPending ]_vars

\* C22 witness: saveAsDraft was asked of a form with a key and a blank name, and
\* nothing was submitted.
C22_Witness ==
    /\ last.op = "saveAsDraft"
    /\ ~last.submitted
    /\ featureFlagMode = "new"
    /\ trim(experimentForm.name) = <<>>
    /\ experimentForm.feature_flag_key = <<"a", "b">>
    /\ createPending = {}

\* C23: in 'existing' mode, with a non-blank name: when a flag F is selected
\* saveAsDraft sets feature_flag_key to F.key and submits the form; when none is
\* selected it shows an error and does not submit.
C23_ExistingFlagSubmits ==
    [][ ( /\ last'.op = "saveAsDraft"
          /\ featureFlagMode = "existing"
          /\ trim(experimentForm.name) # <<>> ) =>
            IF selectedFeatureFlag # Null
            THEN /\ last'.submitted
                 /\ experimentForm'.feature_flag_key = selectedFeatureFlag.key
            ELSE /\ ~last'.submitted
                 /\ toast' = "Please select an existing feature flag" ]_vars

\* C24: every payload sent has start_date = null and the trimmed form name, and
\* the user is taken to the experiment's view only by a create call that
\* succeeded and returned an id.
C24_DraftPayloadAndNavigation ==
    [][ /\ \A payload \in createPending' : payload.start_date = NullText
        /\ (last'.op = "saveAsDraft" /\ last'.submitted) =>
               \E payload \in createPending' :
                   /\ payload.name = trim(experimentForm'.name)
                   /\ payload.start_date = NullText
                   /\ createPending' = createPending \cup {payload}
        /\ (location' # location /\ location' \notin {<<"create">>, <<"experiments">>}) =>
               /\ last'.op = "createResponse"
               /\ last'.ok
               /\ last'.response.id # 0
               /\ location' = <<"experiment", last'.response.id>> ]_vars

\* C24 witness: the form named "a " was submitted as "a", the call returned an id
\* and the experiment's view is shown.
C24_Witness ==
    /\ last.op = "createResponse"
    /\ last.ok
    /\ experimentForm.name = <<"a", " ">>
    /\ location = <<"experiment", last.response.id>>
    /\ toast = MsgSaved

(***************************************************************************)
(* The evaluations list and the shared mock store                          *)
(***************************************************************************)
\* C25: toggleEvaluationEnabled(id) flips the enabled of the entry with that id in
\* the displayed list state exactly once and leaves every other entry's enabled as
\* it was, before the initial load as well as after it.
C25_ToggleFlipsOnce ==
    [][ last'.op = "toggleEvaluationEnabled" =>
          /\ Len(evaluations'.items) = Len(evaluations.items)
          /\ \A i \in 1..Len(evaluations.items) :
                 /\ evaluations'.items[i].id = evaluations.items[i].id
                 /\ evaluations'.items[i].enabled =
                        IF evaluations.items[i].id = last'.id
                        THEN ~evaluations.items[i].enabled
                        ELSE evaluations.items[i].enabled ]_vars

\* the initial load has been delivered
InitialLoadDone == evaluationsLoadTimer = 0 /\ ~evaluationsLoading

\* C26: once the initial load is done, after any sequence of create, update,
\* delete, duplicate and toggle, the list state and window.mockEvaluations hold the
\* same ids in the same order, with the same enabled and name for each.
C26_StateMatchesStore ==
    InitialLoadDone =>
        /\ Len(evaluations.items) = Len(mockEvaluations.items)
        /\ \A i \in 1..Len(evaluations.items) :
               /\ evaluations.items[i].id = mockEvaluations.items[i].id
               /\ evaluations.items[i].enabled = mockEvaluations.items[i].enabled
               /\ evaluations.items[i].name = mockEvaluations.items[i].name

\* no id occurs at two places of the list state
DistinctIds(items) ==
    \A i, j \in 1..Len(items) : items[i].id = items[j].id => i = j

\* C27: the list state never holds two entries with the same id, and each
\* createEvaluation and each duplicateEvaluation of a stored evaluation adds
\* exactly one entry to it, also as the first mutation after the initial load.
C27_OneEntryPerId ==
    [][ /\ DistinctIds(evaluations'.items)
        /\ (last'.op = "createEvaluation"
                => Len(evaluations'.items) = Len(evaluations.items) + 1)
        /\ (last'.op = "duplicateEvaluation"
                /\ findIndex(mockEvaluations.items, last'.id) >= 1
                => Len(evaluations'.items) = Len(evaluations.items) + 1) ]_vars

(***************************************************************************)
(* One evaluation: loading flags, the submitting flag, saved edits         *)
(***************************************************************************)
\* C28: the loading flags clear for every evaluationId. The listeners of
\* loadEvaluation, loadEvaluationRuns and refreshEvaluationRuns do not wait for
\* anything, so no load is pending in any state, and a flag that is to become
\* false after every load is false in every state of the mounted logic.
C28_LoadingFlagsClear ==
    evaluationId # Unmounted => ~evaluationLoading /\ ~runsLoading

\* C29: evaluationFormSubmitting is true in every state in which at least one
\* saveEvaluation is in flight, overlapping saves included.
C29_SubmittingWhileSaving ==
    saveTimers > 0 => evaluationFormSubmitting

\* C30: whenever hasUnsavedChanges is false, as it is following every
\* saveEvaluationSuccess, for an existing evaluation that is in the mock store, the
\* store's record has the name, description, prompt, enabled and conditions of the
\* evaluation state, edits made while the save was in flight included.
C30_SavedEditsStored ==
    ( /\ ~hasUnsavedChanges
      /\ evaluationId \notin {Unmounted, NewId}
      /\ evaluation # Null
      /\ findEvaluation(evaluationId) # Null )
    => /\ findEvaluation(evaluationId).name = evaluation.name
       /\ findEvaluation(evaluationId).description = evaluation.description
       /\ findEvaluation(evaluationId).prompt = evaluation.prompt
       /\ findEvaluation(evaluationId).enabled = evaluation.enabled
       /\ findEvaluation(evaluationId).conditions = evaluation.conditions

\* a save of eval-1 has succeeded right after an edit of the name made while it was
\* in flight, and the store has the new name
C30_Witness ==
    /\ last.op = "saveEvaluationSuccess"
    /\ last.editedInFlight
    /\ evaluationId = EvalId(1)
    /\ ~hasUnsavedChanges
    /\ evaluation # Null
    /\ evaluation.name = <<"Renamed">>
    /\ findEvaluation(evaluationId) # Null
    /\ findEvaluation(evaluationId).name = <<"Renamed">>

====
